---- MODULE Spec2Model ----
(***************************************************************************)
(* A model of transpiler.py, the React -> Angular component transpiler.     *)
(*                                                                         *)
(* Text is a sequence of one-character strings, so that every regular      *)
(* expression of the program is evaluated character by character, the way  *)
(* Python's re module evaluates it.  A position is an index into the text; *)
(* position 0 stands for "no match".                                       *)
(***************************************************************************)
EXTENDS Integers, Sequences, FiniteSets, TLC

VARIABLES
    \* transpile
    react_file,   \* the text of the input file read by read_source
    pc,           \* the statement of transpile to run next
    source, component, states, handlers, jsx, ts_code, template,
                  \* the locals of transpile
    files,        \* the output directory: a set of [path, text]
    error,        \* the message of the ValueError that ended the run
    stdout,       \* what transpile printed
    \* infer_ts_type on its own
    ti_init,      \* the initializer given
    ti_type,      \* the type returned (<<>>: not called yet)
    \* rewrite_handler_body on its own
    rw_states,    \* the state list given
    rw_body,      \* the handler body given
    rw_out,       \* the body returned
    rw_done,      \* whether it has returned
    \* convert_jsx_to_template and its renaming step on their own
    tp_states,    \* the state list given
    tp_jsx,       \* the fragment given
    tp_template,  \* convert_jsx_to_template(tp_jsx)
    tp_again,     \* convert_jsx_to_template(tp_template)
    tp_renamed,   \* the renaming step applied to tp_jsx
    tp_renamed2,  \* the renaming step applied to tp_renamed
    tp_done       \* the applications made so far

pipeVars == <<react_file, pc, source, component, states, handlers, jsx, ts_code,
              template, files, error, stdout>>
tiVars == <<ti_init, ti_type>>
rwVars == <<rw_states, rw_body, rw_out, rw_done>>
tpVars == <<tp_states, tp_jsx, tp_template, tp_again, tp_renamed, tp_renamed2,
            tp_done>>

vars == <<pipeVars, tiVars, rwVars, tpVars>>

\* ------------------------------------------------------------------------
\* Character classes of Python's re (on the ASCII characters the inputs use)
\* ------------------------------------------------------------------------

LowerChars == <<"a","b","c","d","e","f","g","h","i","j","k","l","m",
                "n","o","p","q","r","s","t","u","v","w","x","y","z">>

UpperChars == <<"A","B","C","D","E","F","G","H","I","J","K","L","M",
                "N","O","P","Q","R","S","T","U","V","W","X","Y","Z">>

\* \d
Digit == {"0","1","2","3","4","5","6","7","8","9"}

\* \w
Word == {LowerChars[i] : i \in 1..26} \cup {UpperChars[i] : i \in 1..26}
          \cup Digit \cup {"_"}

\* \s
Space == {" ", "\n", "\t"}

\* ['\"]
Quote == {"'", "\""}

\* ------------------------------------------------------------------------
\* Matching primitives.  Each takes the text and a position and returns the
\* position after the match, or 0 when there is none (0 propagates).
\* ------------------------------------------------------------------------

\* A literal piece of a pattern at position i.
Lit(s, i, lit) ==
    IF i # 0 /\ i + Len(lit) - 1 <= Len(s)
             /\ \A k \in 1..Len(lit) : s[i + k - 1] = lit[k]
    THEN i + Len(lit)
    ELSE 0

\* A greedy  [class]*  at position i: the position after the longest run.
\* Every use below is followed by a token outside the class, so the longest
\* run is the only one with which the rest of the pattern can match.
Many(s, i, class) ==
    IF i = 0 THEN 0
    ELSE CHOOSE j \in i..(Len(s) + 1) :
            /\ \A k \in i..(j - 1) : s[k] \in class
            /\ (j = Len(s) + 1 \/ s[j] \notin class)

\* A greedy  [class]+  at position i.
Many1(s, i, class) ==
    LET j == Many(s, i, class) IN IF j > i THEN j ELSE 0

\* A greedy  [^c]*  at position i (any character but c, newlines included).
ManyNot(s, i, c) ==
    IF i = 0 THEN 0
    ELSE CHOOSE j \in i..(Len(s) + 1) :
            /\ \A k \in i..(j - 1) : s[k] # c
            /\ (j = Len(s) + 1 \/ s[j] = c)

\* A lazy  [\s\S]*?  followed by the literal lit: the first position at or
\* after i where lit starts (0: lit does not occur).
Find(s, i, lit) ==
    IF i = 0 THEN 0
    ELSE LET at == {j \in i..(Len(s) + 1) : Lit(s, j, lit) # 0}
         IN  IF at = {} THEN 0 ELSE CHOOSE j \in at : \A k \in at : j <= k

\* s[i .. j-1]
Slice(s, i, j) == SubSeq(s, i, j - 1)

\* The element of a one-element set.  {F(x) : x \in {e}} binds x to the value
\* of e, so that F reads a value, not an expression evaluated at each use.
Only(S) == CHOOSE r \in S : TRUE

\* The least and the greatest element of a non-empty set of positions.
Least(S) == Only({CHOOSE j \in T : \A k \in T : j <= k : T \in {S}})

Greatest(S) == Only({CHOOSE j \in T : \A k \in T : k <= j : T \in {S}})

\* The text between the first and the last non-blank character
Stripped(s) ==
    LET keep == {k \in 1..Len(s) : s[k] \notin Space}
    IN  IF keep = {} THEN <<>> ELSE SubSeq(s, Least(keep), Greatest(keep))

\* str.strip()
strip(s) == Only({Stripped(v) : v \in {s}})

\* "".join(parts)
RECURSIVE Concat(_)
Concat(parts) ==
    IF parts = <<>> THEN <<>> ELSE Head(parts) \o Concat(Tail(parts))

\* ------------------------------------------------------------------------
\* The regular expressions of the program, each matched at one position,
\* and the substitutions made with them
\* ------------------------------------------------------------------------

\* function\s+(\w+)\s*\(    matched at position i: <<end, name>> or <<0>>
ComponentNameAt(s, i) ==
    LET a == Lit(s, i, <<"f","u","n","c","t","i","o","n">>)
        b == Many1(s, a, Space)
        c == Many1(s, b, Word)
        d == Many(s, c, Space)
        e == Lit(s, d, <<"(">>)
    IN  IF e = 0 THEN <<0>> ELSE <<e, Slice(s, b, c)>>

\* const\s+\[(\w+)\s*,\s*(\w+)\]\s*=\s*useState\((.*?)\);   (DOTALL)
\* matched at position i: <<end, name, setter, init>> or <<0>>
UseStateAt(s, i) ==
    LET a == Lit(s, i, <<"c","o","n","s","t">>)
        b == Lit(s, Many1(s, a, Space), <<"[">>)
        c == Many1(s, b, Word)
        d == Many(s, Lit(s, Many(s, c, Space), <<",">>), Space)
        e == Many1(s, d, Word)
        f == Many(s, Lit(s, Many(s, Lit(s, e, <<"]">>), Space), <<"=">>), Space)
        g == Lit(s, f, <<"u","s","e","S","t","a","t","e","(">>)
        h == Find(s, g, <<")",";">>)
    IN  IF h = 0 THEN <<0>>
        ELSE <<h + 2, Slice(s, b, c), Slice(s, d, e), Slice(s, g, h)>>

\* const\s+(\w+)\s*=\s*\(\s*\)\s*=>\s*\{([\s\S]*?)\};
\* matched at position i: <<end, name, body>> or <<0>>
HandlerAt(s, i) ==
    LET a == Lit(s, i, <<"c","o","n","s","t">>)
        b == Many1(s, a, Space)
        c == Many1(s, b, Word)
        d == Many(s, Lit(s, Many(s, c, Space), <<"=">>), Space)
        e == Many(s, Lit(s, Many(s, Lit(s, d, <<"(">>), Space), <<")">>), Space)
        f == Lit(s, Many(s, Lit(s, e, <<"=",">">>), Space), <<"{">>)
        g == Find(s, f, <<"}",";">>)
    IN  IF g = 0 THEN <<0>> ELSE <<g + 2, Slice(s, b, c), Slice(s, f, g)>>

\* return\s*\(([\s\S]*?)\);    matched at position i: <<end, fragment>> or <<0>>
JsxReturnAt(s, i) ==
    LET a == Lit(s, i, <<"r","e","t","u","r","n">>)
        b == Lit(s, Many(s, a, Space), <<"(">>)
        c == Find(s, b, <<")",";">>)
    IN  IF c = 0 THEN <<0>> ELSE <<c + 2, Slice(s, b, c)>>

this_dot == <<"t","h","i","s",".">>

\* {setter}\s*\(\s*\[([^\]]+)\]\s*\)   ->   this.{var} = [\1]
ArraySetterCallAt(s, i, setter, var) ==
    LET a == Lit(s, i, setter)
        b == Lit(s, Many(s, a, Space), <<"(">>)
        c == Lit(s, Many(s, b, Space), <<"[">>)
        d == ManyNot(s, c, "]")
        e == IF d > c THEN Lit(s, d, <<"]">>) ELSE 0
        f == Lit(s, Many(s, e, Space), <<")">>)
    IN  IF f = 0 THEN <<0>>
        ELSE <<f, this_dot \o var \o <<" ","="," ","[">> \o Slice(s, c, d) \o <<"]">> >>

\* re.sub of the array rule from position pos on: the leftmost match is
\* replaced, the text before it copied, and the scan resumes where the match
\* ended (every pattern of the program matches at least one character).
RECURSIVE ArraySetterCallSubFrom(_, _, _, _)
ArraySetterCallSubFrom(text, pos, setter, var) ==
    Only({LET at == {i \in pos..Len(s) : ArraySetterCallAt(s, i, setter, var)[1] # 0}
          IN  IF at = {} THEN Slice(s, pos, Len(s) + 1)
              ELSE Only({Slice(s, pos, Least(at)) \o m[2] \o ArraySetterCallSubFrom(s, m[1], setter, var) :
                         m \in {ArraySetterCallAt(s, Least(at), setter, var)}}) :
          s \in {text}})

\* {setter}\s*\(\s*([^)]+)\)   ->   this.{var} = \1
\* The group needs one character: when only blanks stand between the
\* parentheses, \s* gives the last of them back to the group.
SetterCallAt(s, i, setter, var) ==
    LET a == Lit(s, i, setter)
        b == Lit(s, Many(s, a, Space), <<"(">>)
        e == ManyNot(s, b, ")")
        g == Many(s, b, Space)
        from == IF g = e THEN e - 1 ELSE g
    IN  IF b = 0 \/ e = b \/ e > Len(s) THEN <<0>>
        ELSE <<e + 1, this_dot \o var \o <<" ","="," ">> \o Slice(s, from, e)>>

\* re.sub of the general rule from position pos on
RECURSIVE SetterCallSubFrom(_, _, _, _)
SetterCallSubFrom(text, pos, setter, var) ==
    Only({LET at == {i \in pos..Len(s) : SetterCallAt(s, i, setter, var)[1] # 0}
          IN  IF at = {} THEN Slice(s, pos, Len(s) + 1)
              ELSE Only({Slice(s, pos, Least(at)) \o m[2] \o SetterCallSubFrom(s, m[1], setter, var) :
                         m \in {SetterCallAt(s, Least(at), setter, var)}}) :
          s \in {text}})

\* \b at position i: exactly one of s[i-1], s[i] is a word character.
WordBoundary(s, i) ==
    (i > 1 /\ i - 1 <= Len(s) /\ s[i - 1] \in Word)
       # (i <= Len(s) /\ s[i] \in Word)

\* (?<!this\.)\b{name}\b   ->   this.{name}
StateRefAt(s, i, name) ==
    LET a == Lit(s, i, name)
    IN  IF /\ a # 0
           /\ ~(i > 5 /\ Slice(s, i - 5, i) = this_dot)
           /\ WordBoundary(s, i)
           /\ WordBoundary(s, a)
        THEN <<a, this_dot \o name>>
        ELSE <<0>>

\* re.sub of the qualification from position pos on
RECURSIVE StateRefSubFrom(_, _, _)
StateRefSubFrom(text, pos, name) ==
    Only({LET at == {i \in pos..Len(s) : StateRefAt(s, i, name)[1] # 0}
          IN  IF at = {} THEN Slice(s, pos, Len(s) + 1)
              ELSE Only({Slice(s, pos, Least(at)) \o m[2] \o StateRefSubFrom(s, m[1], name) :
                         m \in {StateRefAt(s, Least(at), name)}}) :
          s \in {text}})

\* str.lower() on one character
Lower(c) ==
    IF \E k \in 1..26 : UpperChars[k] = c
    THEN LowerChars[CHOOSE k \in 1..26 : UpperChars[k] = c]
    ELSE c

\* \{(\w+)\}   ->   {{ \1 }}
BracedWordAt(s, i) ==
    LET a == Lit(s, i, <<"{">>)
        b == Many1(s, a, Word)
        c == Lit(s, b, <<"}">>)
    IN  IF c = 0 THEN <<0>>
        ELSE <<c, <<"{","{"," ">> \o Slice(s, a, b) \o <<" ","}","}">> >>

\* re.sub(r"\{(\w+)\}", r"{{ \1 }}", inner) from position pos on
RECURSIVE BracedWordSubFrom(_, _)
BracedWordSubFrom(text, pos) ==
    Only({LET at == {i \in pos..Len(s) : BracedWordAt(s, i)[1] # 0}
          IN  IF at = {} THEN Slice(s, pos, Len(s) + 1)
              ELSE Only({Slice(s, pos, Least(at)) \o m[2] \o BracedWordSubFrom(s, m[1]) :
                         m \in {BracedWordAt(s, Least(at))}}) :
          s \in {text}})

\* <li[^>]*>([\s\S]*?)</li>   matched at position i: <<end, inner>> or <<0>>
ListItemAt(s, i) ==
    LET a == Lit(s, i, <<"<","l","i">>)
        b == Lit(s, ManyNot(s, a, ">"), <<">">>)
        c == Find(s, b, <<"<","/","l","i",">">>)
    IN  IF c = 0 THEN <<0>> ELSE <<c + 5, Slice(s, b, c)>>

\* The inner text of the first <li> element of the body, or the whole body
MapInner(body) ==
    LET at == {i \in 1..Len(body) : ListItemAt(body, i)[1] # 0}
    IN  IF at # {} THEN strip(ListItemAt(body, Least(at))[2]) ELSE body

convert_map_expression(collection, item, index, group4) ==
    LET inner == Only({MapInner(body) : body \in {strip(group4)}})
    IN  <<"<","l","i"," ","*","n","g","F","o","r","=","\"","l","e","t"," ">> \o item \o <<" ","o","f"," ">> \o collection
          \o <<";"," ","l","e","t"," ">> \o index \o <<" ","="," ","i","n","d","e","x","\"",">">>
          \o BracedWordSubFrom(inner, 1) \o <<"<","/","l","i",">">>

\* \{(\w+)\.map\(\((\w+),\s*(\w+)\)\s*=>\s*\(([\s\S]*?)\)\)\}
MapExpressionAt(s, i) ==
    LET a == Lit(s, i, <<"{">>)
        b == Many1(s, a, Word)
        c == Lit(s, b, <<".","m","a","p","(","(">>)
        d == Many1(s, c, Word)
        e == Many(s, Lit(s, d, <<",">>), Space)
        f == Many1(s, e, Word)
        g == Many(s, Lit(s, f, <<")">>), Space)
        h == Lit(s, Many(s, Lit(s, g, <<"=",">">>), Space), <<"(">>)
        k == Find(s, h, <<")",")","}">>)
    IN  IF k = 0 THEN <<0>>
        ELSE <<k + 3, Only({convert_map_expression(Slice(s, a, b), Slice(s, c, d),
                                                   Slice(s, e, f), group4) :
                            group4 \in {Slice(s, h, k)}})>>

\* re.sub of the map pattern with convert_map_expression from position pos on
RECURSIVE MapExpressionSubFrom(_, _)
MapExpressionSubFrom(text, pos) ==
    Only({LET at == {i \in pos..Len(s) : MapExpressionAt(s, i)[1] # 0}
          IN  IF at = {} THEN Slice(s, pos, Len(s) + 1)
              ELSE Only({Slice(s, pos, Least(at)) \o m[2] \o MapExpressionSubFrom(s, m[1]) :
                         m \in {MapExpressionAt(s, Least(at))}}) :
          s \in {text}})

\* value=\{(\w+)\}   searched in the attributes
HasValueBinding(attrs) ==
    \E i \in 1..Len(attrs) :
        Lit(attrs, Many1(attrs, Lit(attrs, i, <<"v","a","l","u","e","=","{">>), Word), <<"}">>) # 0

\* onChange=\{\s*\(.*?=>\s*(set\w+)\(   (DOTALL) matched at position i with
\* the arrow at position k: the setter name, or <<>> when there is no match.
SetterCallWithArrowAt(s, i, k) ==
    LET a == Lit(s, i, <<"o","n","C","h","a","n","g","e","=","{">>)
        b == Lit(s, Many(s, a, Space), <<"(">>)
        c == IF b # 0 /\ k >= b THEN Many(s, Lit(s, k, <<"=",">">>), Space) ELSE 0
        d == Lit(s, c, <<"s","e","t">>)
        e == Many1(s, d, Word)
    IN  IF Lit(s, e, <<"(">>) = 0 THEN <<>> ELSE Slice(s, c, e)

\* re.search: the leftmost start, and for it the first arrow (.*? is lazy)
\* after which the rest matches.  <<>>: no match.
FindSetterCall(attrs) ==
    Only({IF arrows = {} THEN <<>>
          ELSE Only({SetterCallWithArrowAt(attrs, first[1], first[2]) :
                     first \in {ik \in arrows :
                                  \A other \in arrows :
                                     \/ ik[1] < other[1]
                                     \/ ik[1] = other[1] /\ ik[2] <= other[2]}}) :
          arrows \in {{ik \in (1..Len(attrs)) \X (1..Len(attrs)) :
                         /\ ik[1] <= ik[2]
                         /\ Lit(attrs, ik[1], <<"o","n","C","h","a","n","g","e","=","{">>) # 0
                         /\ SetterCallWithArrowAt(attrs, ik[1], ik[2]) # <<>>}}})

\* setter_lookup.get(setter_name): <<>> stands for None
Lookup(setter_lookup, setter_name) ==
    IF \E k \in 1..Len(setter_lookup) : setter_lookup[k].setter = setter_name
    THEN setter_lookup[CHOOSE k \in 1..Len(setter_lookup) :
                          setter_lookup[k].setter = setter_name].name
    ELSE <<>>

\* state_name: the looked-up state, or the setter's suffix decapitalized
StateNameOf(setter_lookup, setter_name) ==
    Only({IF found # <<>> THEN found
          ELSE <<Lower(setter_name[4])>> \o SubSeq(setter_name, 5, Len(setter_name)) :
          found \in {Lookup(setter_lookup, setter_name)}})

input_repl(attrs, setter_lookup) ==
    Only({IF HasValueBinding(attrs) /\ setter_name # <<>>
          THEN <<"<","i","n","p","u","t"," ","[","(","n","g","M","o","d","e","l",")","]","=","\"">> \o StateNameOf(setter_lookup, setter_name) \o <<"\""," ","t","y","p","e","=","\"","t","e","x","t","\""," ","/",">">>
          ELSE <<"<","i","n","p","u","t"," ">> \o attrs \o <<"/",">">> :
          setter_name \in {FindSetterCall(attrs)}})

\* <input([\s\S]*?)/>
InputAt(s, i, setter_lookup) ==
    LET a == Lit(s, i, <<"<","i","n","p","u","t">>)
        b == Find(s, a, <<"/",">">>)
    IN  IF b = 0 THEN <<0>>
        ELSE <<b + 2, Only({input_repl(attrs, setter_lookup) : attrs \in {Slice(s, a, b)}})>>

\* re.sub(r"<input([\s\S]*?)/>", input_repl, template) from position pos on
RECURSIVE InputSubFrom(_, _, _)
InputSubFrom(text, pos, setter_lookup) ==
    Only({LET at == {i \in pos..Len(s) : InputAt(s, i, setter_lookup)[1] # 0}
          IN  IF at = {} THEN Slice(s, pos, Len(s) + 1)
              ELSE Only({Slice(s, pos, Least(at)) \o m[2] \o InputSubFrom(s, m[1], setter_lookup) :
                         m \in {InputAt(s, Least(at), setter_lookup)}}) :
          s \in {text}})

\* onClick=\{(\w+)\}   ->   (click)="\1()"
OnClickAt(s, i) ==
    LET a == Lit(s, i, <<"o","n","C","l","i","c","k","=","{">>)
        b == Many1(s, a, Word)
        c == Lit(s, b, <<"}">>)
    IN  IF c = 0 THEN <<0>>
        ELSE <<c, <<"(","c","l","i","c","k",")","=","\"">> \o Slice(s, a, b) \o <<"(",")","\"">> >>

\* re.sub of the onClick pattern from position pos on
RECURSIVE OnClickSubFrom(_, _)
OnClickSubFrom(text, pos) ==
    Only({LET at == {i \in pos..Len(s) : OnClickAt(s, i)[1] # 0}
          IN  IF at = {} THEN Slice(s, pos, Len(s) + 1)
              ELSE Only({Slice(s, pos, Least(at)) \o m[2] \o OnClickSubFrom(s, m[1]) :
                         m \in {OnClickAt(s, Least(at))}}) :
          s \in {text}})

\* template.replace("className", "class")
ClassNameAt(s, i) ==
    LET a == Lit(s, i, <<"c","l","a","s","s","N","a","m","e">>)
    IN  IF a = 0 THEN <<0>> ELSE <<a, <<"c","l","a","s","s">> >>

\* template.replace("className", "class") from position pos on
RECURSIVE ClassNameSubFrom(_, _)
ClassNameSubFrom(text, pos) ==
    Only({LET at == {i \in pos..Len(s) : ClassNameAt(s, i)[1] # 0}
          IN  IF at = {} THEN Slice(s, pos, Len(s) + 1)
              ELSE Only({Slice(s, pos, Least(at)) \o m[2] \o ClassNameSubFrom(s, m[1]) :
                         m \in {ClassNameAt(s, Least(at))}}) :
          s \in {text}})

\* \{([\w\.]+)\}   ->   {{ \1 }}
BracedExprAt(s, i) ==
    LET a == Lit(s, i, <<"{">>)
        b == Many1(s, a, Word \cup {"."})
        c == Lit(s, b, <<"}">>)
    IN  IF c = 0 THEN <<0>>
        ELSE <<c, <<"{","{"," ">> \o Slice(s, a, b) \o <<" ","}","}">> >>

\* re.sub of the residual interpolation from position pos on
RECURSIVE BracedExprSubFrom(_, _)
BracedExprSubFrom(text, pos) ==
    Only({LET at == {i \in pos..Len(s) : BracedExprAt(s, i)[1] # 0}
          IN  IF at = {} THEN Slice(s, pos, Len(s) + 1)
              ELSE Only({Slice(s, pos, Least(at)) \o m[2] \o BracedExprSubFrom(s, m[1]) :
                         m \in {BracedExprAt(s, Least(at))}}) :
          s \in {text}})

\* \s+key=\{\w+\}   ->   (nothing)
KeyAttributeAt(s, i) ==
    LET a == Lit(s, Many1(s, i, Space), <<"k","e","y","=","{">>)
        b == Lit(s, Many1(s, a, Word), <<"}">>)
    IN  IF b = 0 THEN <<0>> ELSE <<b, <<>> >>

\* re.sub of the key cleanup from position pos on
RECURSIVE KeyAttributeSubFrom(_, _)
KeyAttributeSubFrom(text, pos) ==
    Only({LET at == {i \in pos..Len(s) : KeyAttributeAt(s, i)[1] # 0}
          IN  IF at = {} THEN Slice(s, pos, Len(s) + 1)
              ELSE Only({Slice(s, pos, Least(at)) \o m[2] \o KeyAttributeSubFrom(s, m[1]) :
                         m \in {KeyAttributeAt(s, Least(at))}}) :
          s \in {text}})

\* ------------------------------------------------------------------------
\* SourceExtractor
\* ------------------------------------------------------------------------

\* extract_component_name: re.search takes the leftmost match; no match raises
\* ValueError, modelled as the result [ok |-> FALSE].
extract_component_name(src) ==
    LET at == {i \in 1..Len(src) : ComponentNameAt(src, i)[1] # 0}
    IN  IF at = {} THEN [ok |-> FALSE, value |-> <<>>]
        ELSE [ok |-> TRUE, value |-> ComponentNameAt(src, Least(at))[2]]

\* A variant of the findall loop that puts each new declaration in front
\* of the list (states.insert(0, ...) for states.append(...)).
RECURSIVE UseStateFromPrepending(_, _)
UseStateFromPrepending(s, pos) ==
    LET at == {i \in pos..Len(s) : UseStateAt(s, i)[1] # 0}
    IN  IF at = {} THEN <<>>
        ELSE Only({UseStateFromPrepending(s, m[1])
                     \o <<[name |-> m[2], setter |-> m[3], init |-> strip(m[4])]>> :
                   m \in {UseStateAt(s, Least(at))}})

\* pattern.findall(source) from position pos on: the matches left to right,
\* each search resuming where the previous match ended.
RECURSIVE UseStateFrom(_, _)
UseStateFrom(s, pos) ==
    LET at == {i \in pos..Len(s) : UseStateAt(s, i)[1] # 0}
    IN  IF at = {} THEN <<>>
        ELSE Only({<<[name |-> m[2], setter |-> m[3], init |-> strip(m[4])]>>
                     \o UseStateFrom(s, m[1]) :
                   m \in {UseStateAt(s, Least(at))}})

extract_use_state(src) == UseStateFrom(src, 1)

\* handlers[name] = body.strip() on a dict: a name seen before keeps its
\* place in the insertion order and takes the new body.
DictSet(d, name, body) ==
    IF \E k \in 1..Len(d) : d[k].name = name
    THEN [k \in 1..Len(d) |->
            IF d[k].name = name THEN [name |-> name, body |-> body] ELSE d[k]]
    ELSE Append(d, [name |-> name, body |-> body])

RECURSIVE HandlersFrom(_, _, _)
HandlersFrom(s, pos, d) ==
    LET at == {i \in pos..Len(s) : HandlerAt(s, i)[1] # 0}
    IN  IF at = {} THEN d
        ELSE Only({HandlersFrom(s, m[1], DictSet(d, m[2], strip(m[3]))) :
                   m \in {HandlerAt(s, Least(at))}})

extract_handlers(src) == HandlersFrom(src, 1, <<>>)

extract_jsx_return(src) ==
    LET at == {i \in 1..Len(src) : JsxReturnAt(src, i)[1] # 0}
    IN  IF at = {} THEN [ok |-> FALSE, value |-> <<>>]
        ELSE [ok |-> TRUE, value |-> strip(JsxReturnAt(src, Least(at))[2])]

\* ------------------------------------------------------------------------
\* TypeInferencer
\* ------------------------------------------------------------------------

\* ^['\"].*['\"]$      ( . matches no newline; the text is stripped, so $ is
\* the end of the text)
IsQuoted(s) ==
    /\ Len(s) >= 2
    /\ s[1] \in Quote
    /\ s[Len(s)] \in Quote
    /\ \A k \in 2..(Len(s) - 1) : s[k] # "\n"

\* ^\[\s*\]$
IsEmptyBracket(s) ==
    /\ Len(s) >= 2
    /\ s[1] = "["
    /\ Many(s, 2, Space) = Len(s)
    /\ s[Len(s)] = "]"

\* ['\"].*['\"]\s*(,\s*['\"].*['\"]\s*)*\]$   matched at position i: some
\* closing quote q after the opening one, no newline between them, is
\* followed by blanks and then by the final ] or by a comma and another
\* such element.
RECURSIVE QuotedElemsAt(_, _)
QuotedElemsAt(s, i) ==
    /\ i # 0 /\ i <= Len(s)
    /\ s[i] \in Quote
    /\ \E q \in (i + 1)..Len(s) :
          /\ s[q] \in Quote
          /\ \A k \in (i + 1)..(q - 1) : s[k] # "\n"
          /\ LET j == Many(s, q + 1, Space)
             IN  \/ j = Len(s) /\ s[j] = "]"
                 \/ j < Len(s) /\ s[j] = ","
                      /\ QuotedElemsAt(s, Many(s, j + 1, Space))

\* ^\[\s*(['\"].*['\"]\s*(,\s*['\"].*['\"]\s*)*)\]$
IsQuotedBracket(s) ==
    /\ Len(s) >= 1
    /\ s[1] = "["
    /\ QuotedElemsAt(s, Many(s, 2, Space))

\* ^\d+(\.\d+)?$
IsNumber(s) ==
    LET a == Many1(s, 1, Digit)
    IN  /\ a # 0
        /\ \/ a = Len(s) + 1
           \/ a <= Len(s) /\ s[a] = "." /\ Many1(s, a + 1, Digit) = Len(s) + 1

infer_ts_type(init) ==
    LET init_stripped == strip(init)
    IN  IF IsQuoted(init_stripped) THEN <<"s","t","r","i","n","g">>
        ELSE IF IsEmptyBracket(init_stripped) THEN <<"a","n","y","[","]">>
        ELSE IF IsQuotedBracket(init_stripped) THEN <<"s","t","r","i","n","g","[","]">>
        ELSE IF IsNumber(init_stripped) THEN <<"n","u","m","b","e","r">>
        ELSE <<"a","n","y">>

sanitize_init(init) == strip(init)

\* ------------------------------------------------------------------------
\* HandlerRewriter
\* ------------------------------------------------------------------------

\* {s.setter: s.name for s in states}: keys in first-insertion order, the
\* last value of a key wins.
RECURSIVE SetterDict(_, _)
SetterDict(sts, d) ==
    IF sts = <<>> THEN d
    ELSE LET st == Head(sts)
             e  == [setter |-> st.setter, name |-> st.name]
         IN  SetterDict(Tail(sts),
                IF \E k \in 1..Len(d) : d[k].setter = st.setter
                THEN [k \in 1..Len(d) |->
                        IF d[k].setter = st.setter THEN e ELSE d[k]]
                ELSE Append(d, e))

\* The first loop of rewrite_handler_body: per setter, the array rule and
\* then the general rule.
RECURSIVE RewriteSetters(_, _)
RewriteSetters(text, setters) ==
    IF setters = <<>> THEN text
    ELSE LET st == Head(setters)
             r1 == ArraySetterCallSubFrom(text, 1, st.setter, st.name)
             r2 == SetterCallSubFrom(r1, 1, st.setter, st.name)
         IN  RewriteSetters(r2, Tail(setters))

\* The second loop: per state, qualify its bare references.
RECURSIVE QualifyStates(_, _)
QualifyStates(text, sts) ==
    IF sts = <<>> THEN text
    ELSE QualifyStates(
            StateRefSubFrom(text, 1, Head(sts).name),
            Tail(sts))

rewrite_handler_body(body, sts) ==
    QualifyStates(RewriteSetters(body, SetterDict(sts, <<>>)), sts)

\* ------------------------------------------------------------------------
\* MarkupTranslator
\* ------------------------------------------------------------------------

\* re.sub(r"(?<!^)(?=[A-Z])", "-", name).lower(): a dash before every capital
\* letter but a leading one, then lower case.
RECURSIVE KebabFrom(_, _)
KebabFrom(name, k) ==
    IF k > Len(name) THEN <<>>
    ELSE (IF k > 1 /\ \E u \in 1..26 : UpperChars[u] = name[k]
          THEN <<"-">> ELSE <<>>)
         \o <<Lower(name[k])>> \o KebabFrom(name, k + 1)

js_to_kebab(name) == KebabFrom(name, 1)

rename_attribute(tmpl) == ClassNameSubFrom(tmpl, 1)

InputsConverted(tmpl, setter_lookup) ==
    InputSubFrom(tmpl, 1, setter_lookup)

\* The passes in the order of the code, innermost first: map, input,
\* onClick, className, residual interpolation, key cleanup, strip.
convert_jsx_to_template(frag, sts) ==
    strip(
      KeyAttributeSubFrom(
        BracedExprSubFrom(
          rename_attribute(
            OnClickSubFrom(
              InputsConverted(
                MapExpressionSubFrom(frag, 1),
                SetterDict(sts, <<>>)),
              1)),
          1),
        1))

\* ------------------------------------------------------------------------
\* CodeEmitter
\* ------------------------------------------------------------------------

\* sep.join(lines)
RECURSIVE Join(_, _)
Join(lines, sep) ==
    IF lines = <<>> THEN <<>>
    ELSE IF Len(lines) = 1 THEN lines[1]
    ELSE lines[1] \o sep \o Join(Tail(lines), sep)

\* str.splitlines() from position pos on (the line break is "\n")
RECURSIVE SplitLinesFrom(_, _)
SplitLinesFrom(s, pos) ==
    IF pos > Len(s) THEN <<>>
    ELSE Only({IF nl = 0 THEN <<Slice(s, pos, Len(s) + 1)>>
               ELSE <<Slice(s, pos, nl)>> \o SplitLinesFrom(s, nl + 1) :
               nl \in {Find(s, pos, <<"\n">>)}})

splitlines(s) == Only({SplitLinesFrom(v, 1) : v \in {s}})

\* "  " * n
Indent(n) == [k \in 1..(2 * n) |-> " "]

\* The re-indentation loop of generate_ts over the raw lines from k on.
RECURSIVE BodyLines(_, _, _)
BodyLines(raw, k, current_indent) ==
    IF k > Len(raw) THEN <<>>
    ELSE Only({
           IF stripped = <<>> THEN BodyLines(raw, k + 1, current_indent)
           ELSE LET indent == IF stripped[1] = "}"
                              THEN IF current_indent - 1 > 0 THEN current_indent - 1 ELSE 0
                              ELSE current_indent
                IN  <<Indent(indent) \o stripped>>
                      \o BodyLines(raw, k + 1,
                            IF stripped[Len(stripped)] = "{" THEN indent + 1 ELSE indent) :
           stripped \in {strip(raw[k])}})

\* The field declaration of one state
FieldLine(state) ==
    <<" "," ">> \o state.name \o <<":"," ">> \o infer_ts_type(state.init)
       \o <<" ","="," ">> \o sanitize_init(state.init) \o <<";">>

\* The lines of one handler's method, the blank line after it included
MethodLines(handler, sts) ==
    LET body_lines ==
            Only({BodyLines(raw, 1, 0) :
                    raw \in {splitlines(rewrite_handler_body(handler.body, sts))}})
    IN  << <<" "," ">> \o handler.name \o <<"(",")"," ","{">> >>
          \o [k \in 1..Len(body_lines) |-> <<" "," "," "," ">> \o body_lines[k]]
          \o << <<" "," ","}">>, <<>> >>

RECURSIVE AllMethodLines(_, _)
AllMethodLines(hs, sts) ==
    IF hs = <<>> THEN <<>>
    ELSE MethodLines(Head(hs), sts) \o AllMethodLines(Tail(hs), sts)

generate_ts(comp, sts, hs) ==
    LET selector == js_to_kebab(comp)
        header == <<
            <<"i","m","p","o","r","t"," ","{"," ","C","o","m","p","o","n","e","n","t"," ","}"," ","f","r","o","m"," ","'","@","a","n","g","u","l","a","r","/","c","o","r","e","'",";">>,
            <<>>,
            <<"@","C","o","m","p","o","n","e","n","t","(","{">>,
            <<" "," ","s","e","l","e","c","t","o","r",":"," ","'","a","p","p","-">> \o selector \o <<"'",",">>,
            <<" "," ","t","e","m","p","l","a","t","e","U","r","l",":"," ","'",".","/">> \o comp \o <<".","c","o","m","p","o","n","e","n","t",".","h","t","m","l","'",",">>,
            <<" "," ","s","t","y","l","e","U","r","l","s",":"," ","[","'",".","/">> \o comp \o <<".","c","o","m","p","o","n","e","n","t",".","c","s","s","'","]">>,
            <<"}",")">>,
            <<"e","x","p","o","r","t"," ","c","l","a","s","s"," ">> \o comp \o <<"C","o","m","p","o","n","e","n","t"," ","{">> >>
        lines == header
                   \o [k \in 1..Len(sts) |-> FieldLine(sts[k])]
                   \o (IF sts # <<>> THEN << <<>> >> ELSE <<>>)
                   \o AllMethodLines(hs, sts)
        popped == IF lines[Len(lines)] = <<>> THEN SubSeq(lines, 1, Len(lines) - 1)
                  ELSE lines
    IN  Join(Append(popped, <<"}">>), <<"\n">>)

\* ------------------------------------------------------------------------
\* The input files of the runs checked: a component header, up to MaxDecls
\* declarations and a closing part, in every combination.
\* ------------------------------------------------------------------------

MaxDecls == 3

Headers == { <<"f","u","n","c","t","i","o","n"," ","A","p","p","(",")"," ","{","\n">>, <<"c","o","n","s","t"," ","A","p","p"," ","="," ","(",")"," ","=",">"," ","{","\n">> }

StateDeclA == <<"c","o","n","s","t"," ","[","a",","," ","s","e","t","A","]"," ","="," ","u","s","e","S","t","a","t","e","(","0",")",";","\n">>
StateDeclB == <<"c","o","n","s","t"," ","[","b",","," ","s","e","t","B","]"," ","="," ","u","s","e","S","t","a","t","e","(","'","'",")",";","\n">>
HandlerF   == <<"c","o","n","s","t"," ","f"," ","="," ","(",")"," ","=",">"," ","{","\n","s","e","t","A","(","a"," ","+"," ","1",")",";","\n","}",";","\n">>
HandlerG   == <<"c","o","n","s","t"," ","g"," ","="," ","(",")"," ","=",">"," ","{","\n","s","e","t","B","(","'","x","'",")",";","\n","}",";","\n">>
\* a declaration that is not of the two-identifier shape
StateDeclC == <<"c","o","n","s","t"," ","[","c","]"," ","="," ","u","s","e","S","t","a","t","e","(","1",")",";","\n">>

DeclPieces == {StateDeclA, StateDeclB, HandlerF, HandlerG, StateDeclC}

Closings == { <<"r","e","t","u","r","n"," ","(","\n","<","p",">","{","a","}","<","/","p",">","\n",")",";","\n","}","\n">>, <<"r","e","t","u","r","n"," ","<","p",">","{","a","}","<","/","p",">",";","\n","}","\n">>, <<"}","\n">> }

\* All sequences over S of length at most n
RECURSIVE SeqsUpTo(_, _)
SeqsUpTo(S, n) ==
    IF n = 0 THEN {<<>>}
    ELSE LET shorter == SeqsUpTo(S, n - 1)
         IN  shorter \cup {Append(q, x) : q \in shorter, x \in S}

ReactFiles ==
    {h \o Concat(d) \o c : h \in Headers, d \in SeqsUpTo(DeclPieces, MaxDecls),
                           c \in Closings}

\* ------------------------------------------------------------------------
\* transpile, statement by statement
\* ------------------------------------------------------------------------

\* The state before any call
PipeIdle ==
    /\ pc = "read_source"
    /\ source = <<>>
    /\ component = <<>>
    /\ states = <<>>
    /\ handlers = <<>>
    /\ jsx = <<>>
    /\ ts_code = <<>>
    /\ template = <<>>
    /\ files = {}
    /\ error = ""
    /\ stdout = <<>>

TiIdle == ti_type = <<>>

RwIdle == rw_out = <<>> /\ rw_done = FALSE

TpIdle ==
    /\ tp_template = <<>>
    /\ tp_again = <<>>
    /\ tp_renamed = <<>>
    /\ tp_renamed2 = <<>>
    /\ tp_done = {}

Init ==
    /\ react_file \in ReactFiles
    /\ PipeIdle
    /\ ti_init = <<>> /\ TiIdle
    /\ rw_states = <<>> /\ rw_body = <<>> /\ RwIdle
    /\ tp_states = <<>> /\ tp_jsx = <<>> /\ TpIdle

\* source = read_source(react_path)
ReadSource ==
    /\ pc = "read_source"
    /\ source' = react_file
    /\ pc' = "extract_component_name"
    /\ UNCHANGED <<react_file, component, states, handlers, jsx, ts_code,
                   template, files, error, stdout,
                   tiVars, rwVars, tpVars>>

\* component = extract_component_name(source)
ExtractComponentName ==
    /\ pc = "extract_component_name"
    /\ LET r == extract_component_name(source)
       IN  IF r.ok
           THEN /\ component' = r.value
                /\ pc' = "extract_use_state"
                /\ error' = error
           ELSE /\ error' = "Could not find component function definition"
                /\ pc' = "raised"
                /\ component' = component
    /\ UNCHANGED <<react_file, source, states, handlers, jsx, ts_code,
                   template, files, stdout,
                   tiVars, rwVars, tpVars>>

\* states = extract_use_state(source)
ExtractUseState ==
    /\ pc = "extract_use_state"
    /\ states' = extract_use_state(source)
    /\ pc' = "extract_handlers"
    /\ UNCHANGED <<react_file, source, component, handlers, jsx, ts_code,
                   template, files, error, stdout,
                   tiVars, rwVars, tpVars>>

\* handlers = extract_handlers(source)
ExtractHandlers ==
    /\ pc = "extract_handlers"
    /\ handlers' = extract_handlers(source)
    /\ pc' = "extract_jsx_return"
    /\ UNCHANGED <<react_file, source, component, states, jsx, ts_code,
                   template, files, error, stdout,
                   tiVars, rwVars, tpVars>>

\* A variant of the statement below in which a missing return fragment is
\* not an error: the run goes on with an empty fragment.
ExtractJsxReturnNoRaise ==
    /\ pc = "extract_jsx_return"
    /\ jsx' = extract_jsx_return(source).value
    /\ pc' = "generate_ts"
    /\ UNCHANGED <<react_file, source, component, states, handlers, ts_code,
                   template, files, error, stdout,
                   tiVars, rwVars, tpVars>>

\* jsx = extract_jsx_return(source)
ExtractJsxReturn ==
    /\ pc = "extract_jsx_return"
    /\ LET r == extract_jsx_return(source)
       IN  IF r.ok
           THEN /\ jsx' = r.value
                /\ pc' = "generate_ts"
                /\ error' = error
           ELSE /\ error' = "Could not find JSX return block"
                /\ pc' = "raised"
                /\ jsx' = jsx
    /\ UNCHANGED <<react_file, source, component, states, handlers, ts_code,
                   template, files, stdout,
                   tiVars, rwVars, tpVars>>

\* ts_code = generate_ts(component, states, handlers)
GenerateTs ==
    /\ pc = "generate_ts"
    /\ ts_code' = generate_ts(component, states, handlers)
    /\ pc' = "convert_jsx_to_template"
    /\ UNCHANGED <<react_file, source, component, states, handlers, jsx,
                   template, files, error, stdout,
                   tiVars, rwVars, tpVars>>

\* template = convert_jsx_to_template(jsx, states)
ConvertJsxToTemplate ==
    /\ pc = "convert_jsx_to_template"
    /\ template' = convert_jsx_to_template(jsx, states)
    /\ pc' = "write_ts"
    /\ UNCHANGED <<react_file, source, component, states, handlers, jsx,
                   ts_code, files, error, stdout,
                   tiVars, rwVars, tpVars>>

\* Path.write_text: the file is created or replaced
WriteText(dir, path, text) ==
    {f \in dir : f.path # path} \cup {[path |-> path, text |-> text]}

\* write_output, first file: (out_dir / f"{component}.component.ts")
WriteTs ==
    /\ pc = "write_ts"
    /\ files' = WriteText(files, component \o <<".","c","o","m","p","o","n","e","n","t",".","t","s">>, ts_code \o <<"\n">>)
    /\ pc' = "write_html"
    /\ UNCHANGED <<react_file, source, component, states, handlers, jsx,
                   ts_code, template, error, stdout,
                   tiVars, rwVars, tpVars>>

\* write_output, second file: (out_dir / f"{component}.component.html")
WriteHtml ==
    /\ pc = "write_html"
    /\ files' = WriteText(files, component \o <<".","c","o","m","p","o","n","e","n","t",".","h","t","m","l">>, template \o <<"\n">>)
    /\ pc' = "print"
    /\ UNCHANGED <<react_file, source, component, states, handlers, jsx,
                   ts_code, template, error, stdout,
                   tiVars, rwVars, tpVars>>

\* print(f"Generated Angular component for {component} in ./output")
PrintDone ==
    /\ pc = "print"
    /\ stdout' = <<"G","e","n","e","r","a","t","e","d"," ","A","n","g","u","l","a","r"," ","c","o","m","p","o","n","e","n","t"," ","f","o","r"," ">> \o component \o <<" ","i","n"," ",".","/","o","u","t","p","u","t">>
    /\ pc' = "done"
    /\ UNCHANGED <<react_file, source, component, states, handlers, jsx,
                   ts_code, template, files, error,
                   tiVars, rwVars, tpVars>>

Next ==
    \/ ReadSource
    \/ ExtractComponentName
    \/ ExtractUseState
    \/ ExtractHandlers
    \/ ExtractJsxReturn
    \/ GenerateTs
    \/ ConvertJsxToTemplate
    \/ WriteTs
    \/ WriteHtml
    \/ PrintDone

Spec == Init /\ [][Next]_vars

\* ------------------------------------------------------------------------
\* Properties of transpile
\* ------------------------------------------------------------------------

\* One of the two mandatory anchors is missing from the input file.
AnchorMissing ==
    \/ ~extract_component_name(react_file).ok
    \/ ~extract_jsx_return(react_file).ok

\* write_output has been reached (its first statement is next, or later).
WriteOutputReached == pc \in {"write_ts", "write_html", "print", "done"}

\* C1: when the source has no component function definition or no
\* parenthesized return fragment, the run never reaches write_output and
\* writes neither output file, whatever was recognized before the failure.
C1_AbortWritesNothing ==
    AnchorMissing => ~WriteOutputReached /\ files = {}

\* C1 witness: a run aborted on the missing return fragment after states and
\* handlers had been recognized, with nothing written.
C1_Witness ==
    /\ pc = "raised"
    /\ error = "Could not find JSX return block"
    /\ Len(states) >= 2
    /\ Len(handlers) >= 1
    /\ files = {}

\* The declarations the input files are assembled from, as the source text
\* shows them: the kind and the declared name.
KnownDecls == <<
    [text |-> StateDeclA, kind |-> "state",   name |-> <<"a">>],
    [text |-> StateDeclB, kind |-> "state",   name |-> <<"b">>],
    [text |-> HandlerF,   kind |-> "handler", name |-> <<"f">>],
    [text |-> HandlerG,   kind |-> "handler", name |-> <<"g">>] >>

\* The names declared with the given kind in the text, in the order of
\* their places in it, from position pos on.
RECURSIVE DeclaredFrom(_, _, _)
DeclaredFrom(text, kind, pos) ==
    Only({IF at = {} THEN <<>>
          ELSE LET d == CHOOSE d \in 1..Len(KnownDecls) :
                          KnownDecls[d].kind = kind
                            /\ Lit(text, Least(at), KnownDecls[d].text) # 0
               IN  <<KnownDecls[d].name>> \o DeclaredFrom(text, kind, Least(at) + 1) :
          at \in {{i \in pos..Len(text) :
                     \E d \in 1..Len(KnownDecls) :
                        KnownDecls[d].kind = kind
                          /\ Lit(text, i, KnownDecls[d].text) # 0}}})

\* A sequence without the later repetitions of its elements
RECURSIVE FirstOccurrences(_)
FirstOccurrences(q) ==
    IF q = <<>> THEN <<>>
    ELSE LET init == SubSeq(q, 1, Len(q) - 1)
             last == q[Len(q)]
         IN  IF \E k \in 1..Len(init) : init[k] = last
             THEN FirstOccurrences(init)
             ELSE Append(FirstOccurrences(init), last)

\* The lines of the class header that generate_ts emits before the fields
HeaderLineCount == 8

\* The name a line of the class body declares as a field ("  name: ..."),
\* or <<>>
FieldNameOf(line) ==
    LET j == Many1(line, Lit(line, 1, <<" "," ">>), Word)
    IN  IF Lit(line, j, <<":"," ">>) # 0 THEN Slice(line, 3, j) ELSE <<>>

\* The name a line of the class body opens a method for ("  name() {"),
\* or <<>>
MethodNameOf(line) ==
    LET j == Many1(line, Lit(line, 1, <<" "," ">>), Word)
    IN  IF Lit(line, j, <<"(",")"," ","{">>) = Len(line) + 1 /\ j # 0
        THEN Slice(line, 3, j) ELSE <<>>

\* The places (line numbers) in the emitted lines of the field declarations
\* and of the method openings, after the class header
FieldPlaces(lines) ==
    {k \in (HeaderLineCount + 1)..Len(lines) : FieldNameOf(lines[k]) # <<>>}

MethodPlaces(lines) ==
    {k \in (HeaderLineCount + 1)..Len(lines) : MethodNameOf(lines[k]) # <<>>}

\* The elements of a set of places in increasing order
RECURSIVE Ascending(_)
Ascending(P) ==
    IF P = {} THEN <<>> ELSE <<Least(P)>> \o Ascending(P \ {Least(P)})

\* The names of the emitted fields, and of the emitted methods, top down
EmittedFields(lines) ==
    LET at == Ascending(FieldPlaces(lines))
    IN  [k \in 1..Len(at) |-> FieldNameOf(lines[at[k]])]

EmittedMethods(lines) ==
    LET at == Ascending(MethodPlaces(lines))
    IN  [k \in 1..Len(at) |-> MethodNameOf(lines[at[k]])]

TsGenerated ==
    pc \in {"convert_jsx_to_template", "write_ts", "write_html", "print", "done"}

\* C6: the emitted fields are the declared states in source order, the
\* emitted methods are the declared handlers in source order (a handler name
\* declared again keeps the place of its first declaration), and every
\* field precedes every method.
C6_DeclarationOrderKept ==
    TsGenerated =>
        LET lines == splitlines(ts_code)
            fp    == FieldPlaces(lines)
            mp    == MethodPlaces(lines)
        IN  /\ EmittedFields(lines) = DeclaredFrom(react_file, "state", 1)
            /\ EmittedMethods(lines)
                 = FirstOccurrences(DeclaredFrom(react_file, "handler", 1))
            /\ \A i \in fp : \A j \in mp : i < j

\* C6 witness: a finished run whose source declares a handler, then a state,
\* then another handler: the field and both methods are emitted.
C6_Witness ==
    /\ pc = "done"
    /\ DeclaredFrom(react_file, "state", 1) = << <<"a">> >>
    /\ DeclaredFrom(react_file, "handler", 1) = << <<"g">>, <<"f">> >>
    /\ Lit(react_file, 1, Concat(<<<<"f","u","n","c","t","i","o","n"," ","A","p","p","(",")"," ","{","\n">>, HandlerG, StateDeclA, HandlerF>>)) # 0
    /\ Len(EmittedMethods(splitlines(ts_code))) = 2
    /\ Len(EmittedFields(splitlines(ts_code))) = 1

\* ------------------------------------------------------------------------
\* infer_ts_type on its own: every initializer made of at most MaxInitPieces
\* of the pieces below is classified.
\* ------------------------------------------------------------------------

MaxInitPieces == 5

InitPieces == { <<"\"","a","\"">>, <<"'","b","'">>, <<"1">>, <<".","5">>, <<"[">>, <<"]">>,
                <<","," ","\"","c","\"">>, <<","," ","2">>, <<" ","+"," ","\"","d","\"">> }

\* The initializers made of at most n pieces
InitializersUpTo(n) == {Concat(q) : q \in SeqsUpTo(InitPieces, n)}

InitInfer ==
    /\ ti_init \in InitializersUpTo(MaxInitPieces)
    /\ TiIdle
    /\ react_file = <<>> /\ PipeIdle
    /\ rw_states = <<>> /\ rw_body = <<>> /\ RwIdle
    /\ tp_states = <<>> /\ tp_jsx = <<>> /\ TpIdle

InferTsType ==
    /\ ti_type = <<>>
    /\ ti_type' = infer_ts_type(ti_init)
    /\ UNCHANGED <<ti_init, pipeVars, rwVars, tpVars>>

NextInfer == InferTsType

SpecInfer == InitInfer /\ [][NextInfer]_vars

\* What the precedence table names, read off the text itself.
\* A single quoted literal: an opening quote, its first repetition closing
\* the literal at the end of the text.
IsOneQuotedLiteral(s) ==
    /\ Len(s) >= 2
    /\ s[1] \in Quote
    /\ s[Len(s)] = s[1]
    /\ \A k \in 2..(Len(s) - 1) : s[k] # s[1]

\* The position after the quoted literal that starts at i (0: none starts)
QuotedLiteralEnd(s, i) ==
    IF i = 0 \/ i > Len(s) \/ s[i] \notin Quote THEN 0
    ELSE LET close == {k \in (i + 1)..Len(s) : s[k] = s[i]}
         IN  IF close = {} THEN 0 ELSE Least(close) + 1

\* From i on: quoted literals separated by commas, up to the closing
\* bracket that ends the text.
RECURSIVE OnlyQuotedElements(_, _)
OnlyQuotedElements(s, i) ==
    LET e == Many(s, QuotedLiteralEnd(s, Many(s, i, Space)), Space)
    IN  /\ e # 0 /\ e <= Len(s)
        /\ \/ e = Len(s) /\ s[e] = "]"
           \/ s[e] = "," /\ OnlyQuotedElements(s, e + 1)

IsBracketOfQuotedLiterals(s) ==
    Len(s) >= 1 /\ s[1] = "[" /\ OnlyQuotedElements(s, 2)

TypeByPrecedence(init) ==
    LET s == strip(init)
    IN  IF IsOneQuotedLiteral(s) THEN <<"s","t","r","i","n","g">>
        ELSE IF IsEmptyBracket(s) THEN <<"a","n","y","[","]">>
        ELSE IF IsBracketOfQuotedLiterals(s) THEN <<"s","t","r","i","n","g","[","]">>
        ELSE IF IsNumber(s) THEN <<"n","u","m","b","e","r">>
        ELSE <<"a","n","y">>

\* C5: infer_ts_type returns the type the precedence table gives: string
\* exactly for a single quoted literal, else any[] for an empty bracket
\* literal, else string[] exactly for a bracket literal of quoted literals
\* only, else number for an integer or decimal literal, else any.
C5_TypeByPrecedence ==
    ti_type # <<>> => ti_type = TypeByPrecedence(ti_init)

\* ------------------------------------------------------------------------
\* rewrite_handler_body on its own: a handler body holding one call
\*     <prefix><callee>(<argument>)<suffix>
\* for every state list, prefix, setter, argument and suffix below.
\* ------------------------------------------------------------------------

MaxElems == 2

StateN    == [name |-> <<"n">>, setter |-> <<"s","e","t","N">>, init |-> <<"0">>]
StateList == [name |-> <<"l","i","s","t">>, setter |-> <<"s","e","t","L","i","s","t">>, init |-> <<"[","]">>]

StateLists == { <<StateN>>, <<StateN, StateList>>, <<StateList, StateN>> }

\* The elements array literals are made of
ArrayElems == { <<"\"","a","\"">>, <<"n">>, <<"f","(","x",")">>, <<"[","1","]">>, <<"g","(","[","1","]",")">>, <<".",".",".","l","i","s","t">> }

\* [e1, e2, ...]
ArrayLiteral(elems) == <<"[">> \o Join(elems, <<","," ">>) \o <<"]">>

ArrayLiterals == {ArrayLiteral(q) : q \in SeqsUpTo(ArrayElems, MaxElems)}

\* The other arguments
PlainArgs == { <<"0">>, <<"n"," ","+"," ","1">>, <<"f","(","x",")">>, <<"f","(","x",")"," ","+"," ","1">>, <<"'","x","'">>, <<"{"," ",".",".",".","n",","," ","k",":"," ","1"," ","}">> }

Args == ArrayLiterals \cup PlainArgs

\* What precedes the callee: nothing, a statement, or the letters that make
\* the callee a longer identifier (resetN for setN)
StatementPrefixes == { <<>>, <<"x"," ","="," ","1",";","\n">> }
IdentifierPrefix  == <<"r","e">>
Prefixes == StatementPrefixes \cup {IdentifierPrefix}

Suffixes == { <<>>, <<";">> }

\* <prefix><setter>(<argument>)<suffix>
CallText(prefix, setter, arg, suffix) ==
    prefix \o setter \o <<"(">> \o arg \o <<")">> \o suffix

InitRewrite ==
    /\ rw_states \in StateLists
    /\ \E p \in Prefixes, k \in 1..Len(rw_states), a \in Args, x \in Suffixes :
          rw_body = CallText(p, rw_states[k].setter, a, x)
    /\ RwIdle
    /\ react_file = <<>> /\ PipeIdle
    /\ ti_init = <<>> /\ TiIdle
    /\ tp_states = <<>> /\ tp_jsx = <<>> /\ TpIdle

RewriteHandlerBody ==
    /\ ~rw_done
    /\ rw_out' = rewrite_handler_body(rw_body, rw_states)
    /\ rw_done' = TRUE
    /\ UNCHANGED <<rw_states, rw_body, pipeVars, tiVars, tpVars>>

NextRewrite == RewriteHandlerBody

SpecRewrite == InitRewrite /\ [][NextRewrite]_vars

\* The assignment a setter call stands for, its state references qualified
AssignmentText(prefix, st, arg, suffix) ==
    QualifyStates(prefix \o this_dot \o st.name \o <<" ","="," ">> \o arg \o suffix,
                  rw_states)

\* C2: every call of a setter, whatever the shape of its argument (a
\* literal, an expression, an expression with a parenthesized call in it),
\* is rewritten into the assignment of the complete argument to the field
\* of the state the setter belongs to.
C2_SetterCallBecomesAssignment ==
    rw_done =>
        \A p \in StatementPrefixes, k \in 1..Len(rw_states), a \in PlainArgs,
           x \in Suffixes :
            rw_body = CallText(p, rw_states[k].setter, a, x)
                => rw_out = AssignmentText(p, rw_states[k], a, x)

\* C3: a setter call whose argument is a bracketed array literal is
\* rewritten into the assignment of that literal, both brackets in place,
\* to the qualified field, for every setter of the state list.
C3_ArrayLiteralAssigned ==
    rw_done =>
        \A p \in StatementPrefixes, k \in 1..Len(rw_states), a \in ArrayLiterals,
           x \in Suffixes :
            rw_body = CallText(p, rw_states[k].setter, a, x)
                => rw_out = p \o this_dot \o rw_states[k].name \o <<" ","="," ">>
                              \o QualifyStates(a, rw_states) \o x

\* C10: a call of an identifier that only ends in a setter name (resetN
\* where setN is a setter) is not a setter call: the body is returned with
\* that call as it was, only its state references qualified.
C10_OtherCalleeUntouched ==
    rw_done =>
        \A k \in 1..Len(rw_states), a \in Args, x \in Suffixes :
            rw_body = CallText(IdentifierPrefix, rw_states[k].setter, a, x)
                => rw_out = QualifyStates(rw_body, rw_states)

\* ------------------------------------------------------------------------
\* convert_jsx_to_template on its own: every fragment made of at most
\* MaxElements of the markup elements below, translated once and then once
\* more, and the renaming step applied to it once and twice.
\* ------------------------------------------------------------------------

MaxElements == 2

StateName  == [name |-> <<"n","a","m","e">>, setter |-> <<"s","e","t","N","a","m","e">>, init |-> <<"'","'">>]
StateTodos == [name |-> <<"t","o","d","o","s">>, setter |-> <<"u","p","d","a","t","e","T","o","d","o","s">>, init |-> <<"[","]">>]

TemplateStateLists == { <<StateName, StateTodos>>, <<StateName>> }

\* <input value={name} onChange={(e) => setter(e.target.value)} />
ControlledInput(st) ==
    <<"<","i","n","p","u","t"," ","v","a","l","u","e","=","{">> \o st.name \o <<"}"," ","o","n","C","h","a","n","g","e","=","{","(","e",")"," ","=",">"," ">> \o st.setter \o <<"(","e",".","t","a","r","g","e","t",".","v","a","l","u","e",")","}"," ","/",">">>

\* <input [(ngModel)]="name" type="text" />
TwoWayBoundInput(name) ==
    <<"<","i","n","p","u","t"," ","[","(","n","g","M","o","d","e","l",")","]","=","\"">> \o name \o <<"\""," ","t","y","p","e","=","\"","t","e","x","t","\""," ","/",">">>

\* Self-closing inputs that lack the value binding or the change handler
UncontrolledInputs == { <<"<","i","n","p","u","t"," ","t","y","p","e","=","\"","c","h","e","c","k","b","o","x","\""," ","/",">">>, <<"<","i","n","p","u","t"," ","v","a","l","u","e","=","{","n","a","m","e","}"," ","/",">">>, <<"<","i","n","p","u","t","/",">">> }

\* A list item with a key outside any map, and map expressions over <li>
\* and over another element
KeyedElements == { <<"<","l","i"," ","k","e","y","=","{","i","d","}",">","{","t","o","d","o","}","<","/","l","i",">">>, <<"{","t","o","d","o","s",".","m","a","p","(","(","t","o","d","o",","," ","i","n","d","e","x",")"," ","=",">"," ","(","<","l","i"," ","k","e","y","=","{","i","n","d","e","x","}",">","{","t","o","d","o","}","<","/","l","i",">",")",")","}">>, <<"{","t","o","d","o","s",".","m","a","p","(","(","t","o","d","o",","," ","i","n","d","e","x",")"," ","=",">"," ","(","<","p"," ","k","e","y","=","{","i","n","d","e","x","}",">","{","t","o","d","o","}","<","/","p",">",")",")","}">> }

OtherElements == { <<"<","b","u","t","t","o","n"," ","o","n","C","l","i","c","k","=","{","a","d","d","T","o","d","o","}"," ","c","l","a","s","s","N","a","m","e","=","\"","b","t","n","\"",">","A","d","d","<","/","b","u","t","t","o","n",">">>, <<"<","p"," ","c","l","a","s","s","N","a","m","e","N","a","m","e","=","\"","x","\"",">","{","n","a","m","e","}","<","/","p",">">>, <<"<","p",">","t","e","x","t","<","/","p",">">> }

MarkupElements ==
    {ControlledInput(StateName), ControlledInput(StateTodos)}
       \cup UncontrolledInputs \cup KeyedElements \cup OtherElements

\* The fragments made of at most n elements
FragmentsUpTo(n) == {Concat(q) : q \in SeqsUpTo(MarkupElements, n)}

InitTemplate ==
    /\ tp_states \in TemplateStateLists
    /\ tp_jsx \in FragmentsUpTo(MaxElements)
    /\ TpIdle
    /\ react_file = <<>> /\ PipeIdle
    /\ ti_init = <<>> /\ TiIdle
    /\ rw_states = <<>> /\ rw_body = <<>> /\ RwIdle

\* template = convert_jsx_to_template(jsx, states)
ConvertOnce ==
    /\ "convert" \notin tp_done
    /\ tp_template' = convert_jsx_to_template(tp_jsx, tp_states)
    /\ tp_done' = tp_done \cup {"convert"}
    /\ UNCHANGED <<tp_states, tp_jsx, tp_again, tp_renamed, tp_renamed2,
                   pipeVars, tiVars, rwVars>>

\* the template translated a second time
ConvertAgain ==
    /\ "convert" \in tp_done
    /\ "again" \notin tp_done
    /\ tp_again' = convert_jsx_to_template(tp_template, tp_states)
    /\ tp_done' = tp_done \cup {"again"}
    /\ UNCHANGED <<tp_states, tp_jsx, tp_template, tp_renamed, tp_renamed2,
                   pipeVars, tiVars, rwVars>>

\* template = template.replace("className", "class")
RenameOnce ==
    /\ "rename" \notin tp_done
    /\ tp_renamed' = rename_attribute(tp_jsx)
    /\ tp_done' = tp_done \cup {"rename"}
    /\ UNCHANGED <<tp_states, tp_jsx, tp_template, tp_again, tp_renamed2,
                   pipeVars, tiVars, rwVars>>

\* the renaming applied to its own result
RenameAgain ==
    /\ "rename" \in tp_done
    /\ "rename2" \notin tp_done
    /\ tp_renamed2' = rename_attribute(tp_renamed)
    /\ tp_done' = tp_done \cup {"rename2"}
    /\ UNCHANGED <<tp_states, tp_jsx, tp_template, tp_again, tp_renamed,
                   pipeVars, tiVars, rwVars>>

NextTemplate ==
    \/ ConvertOnce
    \/ ConvertAgain
    \/ RenameOnce
    \/ RenameAgain

SpecTemplate == InitTemplate /\ [][NextTemplate]_vars

\* C4: the className -> class renaming is idempotent: applied to its own
\* result it changes nothing.
C4_RenamingIdempotent ==
    "rename2" \in tp_done => tp_renamed2 = tp_renamed

\* C7: a self-closing input with a value binding and a change handler that
\* calls a setter of the state list is emitted as the two-way-bound input
\* of the state that setter belongs to, whatever the setter is called.
C7_ControlledInputBound ==
    "convert" \in tp_done =>
        \A k \in 1..Len(tp_states) :
            tp_jsx = ControlledInput(tp_states[k])
                => tp_template = TwoWayBoundInput(tp_states[k].name)

\* The self-closing inputs without a braced expression: no pass has a
\* pattern for any part of them.
PlainInputs == {e \in UncontrolledInputs : Find(e, 1, <<"{">>) = 0}

\* C8: a self-closing input that lacks the value binding or the change
\* handler, and holds nothing another pass has a pattern for, passes through
\* character for character, and translating the result again changes
\* nothing.
C8_UncontrolledInputPassesThrough ==
    /\ "convert" \in tp_done /\ tp_jsx \in PlainInputs
          => tp_template = tp_jsx
    /\ "again" \in tp_done /\ tp_jsx \in PlainInputs
          => tp_again = tp_template

\* C9: the finished template holds no key attribute any more.
C9_NoKeyAttributeLeft ==
    "convert" \in tp_done => Find(tp_template, 1, <<"k","e","y","=">>) = 0

====
